---- MODULE Spec2Model ----
(***************************************************************************)
(* Model of the orchestration graph of project_alice (src/src/main.py),    *)
(* its session state (src/src/state.py) and the capabilities it drives     *)
(* (src/src/tools.py).                                                     *)
(*                                                                         *)
(* The graph is a langgraph StateGraph over the TypedDict AgentState.  The *)
(* keys AgentState declares are the graph's channels: a node receives a    *)
(* dict holding the channels that have a value, and of the dict a node     *)
(* returns only the declared keys are written back (each channel keeps the *)
(* last value written).  A key that AgentState does not declare is neither *)
(* stored nor handed to the next node.                                     *)
(*                                                                         *)
(* Text is modelled as a sequence of fragments; a fragment plays the part  *)
(* of a character, so that `x in s` is a search for a contiguous           *)
(* sub-sequence and formatting is concatenation.                           *)
(***************************************************************************)
EXTENDS Integers, Sequences, FiniteSets, Bags, TLC

VARIABLES
    pc,         \* the graph node that runs next ("END" once the run is over)
    state,      \* the channels of AgentState that hold a value
    steps,      \* graph steps taken so far in this run
    gate,       \* history: what the PermissionGate last did, and for which call
    denied,     \* history: correlation ids the operator denied
    executed,   \* history: the capability executions so far
    returned,   \* history: the results the last Execute got from the capabilities
    replans,    \* history: Replan transitions since the start or the last override
    run,        \* the run explored: what the provider may answer, and for how long
    memory,     \* the memory service: its store, its reranker, its last request
    registry,   \* the generated-tools directory, its manifest, the sessions using them
    errors      \* history: HandleError transitions since the start or the last override

vars ==
    <<pc, state, steps, gate, denied, executed, returned, replans, run, memory, registry,
      errors>>

----------------------------------------------------------------------------
(* Bounds of the model *)

\* graph steps explored per run (the program's own limit is recursion_limit)
MaxSteps == 17

\* graph steps explored per run when the provider may also fail on a request
\* for text
MaxFaultySteps == 9

\* graph steps explored per run of scenario A
MaxScenarioSteps == 13

\* graph steps explored per run of an engine that keeps asking for assistance
MaxLongSteps == 101

\* goals the operator types in one CLI session
MaxGoals == 2

\* passages the memory store holds at most
MaxDocs == 4

\* the reranker's scores are 0..MaxScore
MaxScore == 2

----------------------------------------------------------------------------
(* Text *)

Q == "\""

\* needle in haystack (Python's `in` on str)
Contains(haystack, needle) ==
    \E i \in 0..(Len(haystack) - Len(needle)) :
        SubSeq(haystack, i + 1, i + Len(needle)) = needle

\* str.lower(), fragment by fragment
LowerFragment(f) ==
    CASE f = "Y" -> "y"
      [] f = "N" -> "n"
      [] f = "EXIT" -> "exit"
      [] f = "Stop" -> "stop"
      [] OTHER -> f

lower(s) == [i \in 1..Len(s) |-> LowerFragment(s[i])]

RECURSIVE JoinWith(_, _)
\* sep.join(parts)
JoinWith(parts, sep) ==
    IF Len(parts) = 0 THEN <<>>
    ELSE IF Len(parts) = 1 THEN parts[1]
    ELSE parts[1] \o sep \o JoinWith(Tail(parts), sep)

RECURSIVE JsonEscape(_)
\* the escaping json.dumps applies inside a string: a quote becomes \"
JsonEscape(s) ==
    IF Len(s) = 0 THEN <<>>
    ELSE (IF Head(s) = Q THEN <<"\\", Q>> ELSE <<Head(s)>>) \o JsonEscape(Tail(s))

\* a dict value as json.dumps writes it: a string in quotes, a number bare
JsonValue(v) ==
    IF v.t = "str" THEN <<Q>> \o JsonEscape(v.v) \o <<Q>> ELSE v.v

\* one "key": value item
JsonItem(kv) == <<Q, kv[1], Q, ":", " ">> \o JsonValue(kv[2])

\* json.dumps(d) for a dict d given as its sequence of <<key, value>> items
JsonDumps(d) ==
    <<"{">> \o JoinWith([i \in 1..Len(d) |-> JsonItem(d[i])], <<",", " ">>) \o <<"}">>

S(v) == [t |-> "str", v |-> v]
N(v) == [t |-> "num", v |-> v]

----------------------------------------------------------------------------
(* Messages (langchain_core.messages) *)

HumanMessage(content) == [type |-> "human", content |-> content]
AIMessage(content, tool_calls) == [type |-> "ai", content |-> content, tool_calls |-> tool_calls]
ToolMessage(content, name, id) ==
    [type |-> "tool", content |-> content, name |-> name, tool_call_id |-> id]

IsHuman(m) == m.type = "human"
IsAI(m) == m.type = "ai"
IsTool(m) == m.type = "tool"
HasToolCalls(m) == IsAI(m) /\ Len(m.tool_calls) > 0

Last(s) == s[Len(s)]
\* s[:-1]
ButLast(s) == SubSeq(s, 1, Len(s) - 1)
\* s[-n:]
LastN(s, n) == IF Len(s) <= n THEN s ELSE SubSeq(s, Len(s) - n + 1, Len(s))

----------------------------------------------------------------------------
(* Session state: the channels of the graph *)

\* the keys AgentState declares
\* the schema with the two keys the nodes use and state.py does not declare
AgentState_with_counters ==
    {"user_goal", "messages", "final_report", "plan", "completed_plan_steps",
     "replan_attempts", "failed_actions"}

AgentState == {"user_goal", "messages", "final_report", "plan", "completed_plan_steps"}

NoState == [k \in {} |-> 0]

\* state.get(key, default)
Get(s, key, default) == IF key \in DOMAIN s THEN s[key] ELSE default

\* what the graph keeps of the dict a node (or the caller) hands back
Write(s, update) ==
    [k \in DOMAIN s \cup (DOMAIN update \cap AgentState) |->
        IF k \in DOMAIN update THEN update[k] ELSE s[k]]

messages == Get(state, "messages", <<>>)
replan_attempts == Get(state, "replan_attempts", 0)

----------------------------------------------------------------------------
(* Configuration *)

base_tools ==
    <<"retrieve_from_memory", "search_the_web", "write_file", "execute_script",
      "run_shell_command", "add_to_memory", "request_human_assistance">>

DANGEROUS_TOOLS == {"write_file", "execute_script", "run_shell_command"}

MAX_REPLAN_ATTEMPTS == 3

\* app.stream with twice the limit, which no run of the model meets
recursion_limit_doubled == 100 + 100

\* the super-steps app.stream runs before it raises GraphRecursionError
recursion_limit == 100

\* the history length above which replan compacts, and the window it keeps
PRUNE_WINDOW == 10

Range(f) == {f[i] : i \in DOMAIN f}

----------------------------------------------------------------------------
(* Reasoning client *)

NoArgs == <<>>

user_goal_text == <<"find X online and remember it">>

ApiFailure == <<"Error: The API call failed with an exception: ", "ConnectionError">>

\* invoke_llm: the assistant message built from what the provider did.
\* r.ok = FALSE is a RequestException (transport failure or non-2xx status);
\* otherwise r carries the content and the raw tool calls of the completion.
invoke_llm(r) ==
    IF r.ok
    THEN AIMessage(r.content,
                   [i \in 1..Len(r.tool_calls) |->
                       [name |-> r.tool_calls[i].name,
                        args |-> IF r.tool_calls[i].arguments.json
                                 THEN r.tool_calls[i].arguments.value
                                 ELSE NoArgs,
                        id   |-> r.tool_calls[i].id]])
    ELSE AIMessage(ApiFailure, <<>>)

RawCall(name, args, id) ==
    [name |-> name, arguments |-> [json |-> TRUE, value |-> args], id |-> id]

Completion(content, calls) == [ok |-> TRUE, content |-> content, tool_calls |-> calls]

RequestException == [ok |-> FALSE]

\* a 2xx answer whose JSON body holds no choices[0].message
NoChoices == [ok |-> TRUE, choices |-> <<>>]

\* invoke_llm leaves by an exception other than RequestException: reading
\* response_data['choices'][0]['message'] fails and nothing catches it
invoke_llm_raises(r) == r.ok /\ "content" \notin DOMAIN r

\* the arguments the reasoning engine gives to each capability
ArgsOf(name) ==
    CASE name = "search_the_web" -> << <<"query", S(<<"X">>)>> >>
      [] name = "execute_script" -> << <<"file_path", S(<<"run.py">>)>> >>
      [] name = "run_shell_command" -> << <<"command", S(<<"ls">>)>> >>
      [] name = "add_to_memory" -> << <<"text_to_remember", S(<<"X is Y">>)>> >>
      [] name = "request_human_assistance" -> << <<"request", S(<<"need a new strategy">>)>> >>
      [] OTHER -> NoArgs

\* capabilities the reasoning engine invokes alone in the model
SingleCalls == {"search_the_web", "run_shell_command", "request_human_assistance"}

\* lists of capabilities the reasoning engine invokes in one message
MultiCalls == {<<"search_the_web", "execute_script">>}

\* the same for a goal that is about remembering what a search finds
ScenarioSingleCalls == {"search_the_web", "add_to_memory", "request_human_assistance"}
ScenarioMultiCalls == {<<"search_the_web", "request_human_assistance">>}

\* what the provider can answer to Decide in graph step n: a final answer, a
\* failure, one invocation, or several invocations in one message
DecideResponses(n) ==
    {Completion(<<"X is Y">>, <<>>), RequestException, NoChoices}
    \cup {Completion(<<>>, <<RawCall(t, ArgsOf(t), <<n, 1>>)>>) : t \in run.single}
    \cup {Completion(<<>>, [i \in 1..Len(c) |-> RawCall(c[i], ArgsOf(c[i]), <<n, i>>)]) :
             c \in run.multi}

\* what the provider can answer to a request without tools (plan, report)
TextResponses == {Completion(<<"1. search the web", "\n", "2. remember">>, <<>>)}

\* the same with its failures: an empty completion, a transport failure, a
\* body without choices
FaultyTextResponses ==
    TextResponses \cup {Completion(<<>>, <<>>), RequestException, NoChoices}

----------------------------------------------------------------------------
(* Memory service (src/sub_agents/memory_service.py) and its two capabilities *)

\* similarity_search(query, k=10)
MEMORY_K == 10
\* scored_docs[:3]
TOP_DOCS == 3

\* the texts a passage can hold; "" can be stored like any other
Passages == {<<>>, <<"X is Y">>, <<"X was Z">>}

Scores == 0..MaxScore

Document(text) == [page_content |-> text, metadata |-> <<>>]

Min(a, b) == IF a < b THEN a ELSE b

\* how often text occurs in the list of documents
Occurrences(docs, text) ==
    Cardinality({i \in 1..Len(docs) : docs[i].page_content = text})

RECURSIVE Nearest(_, _)
\* the lists of n texts that can be taken out of the store
Nearest(store, n) ==
    IF n = 0 THEN {<<>>}
    ELSE UNION {{<<text>> \o rest : rest \in Nearest(store (-) SetToBag({text}), n - 1)} :
                    text \in BagToSet(store)}

\* db.similarity_search(query, k=10): the k nearest documents of the store (all
\* of them when it holds fewer), in the order of their embedding distance,
\* which is any order; or an exception of the store
similarity_search(store) ==
    {[ok |-> FALSE]} \cup
    {[ok |-> TRUE, docs |-> [i \in 1..Len(c) |-> Document(c[i])]] :
        c \in Nearest(store, Min(MEMORY_K, BagCardinality(store)))}

\* cross_encoder.predict(pairs): one score per [query, passage] pair
predict(pairs, score) == [i \in 1..Len(pairs) |-> score[pairs[i][2]]]

zip(xs, ys) == [i \in 1..Min(Len(xs), Len(ys)) |-> <<xs[i], ys[i]>>]

RECURSIVE sorted_reverse(_)
\* sorted(pairs, key=lambda x: x[0], reverse=True): descending by score, pairs
\* of equal score in their original order
sorted_reverse(pairs) ==
    IF Len(pairs) = 0 THEN <<>>
    ELSE LET rest == sorted_reverse(ButLast(pairs))
             x == Last(pairs)
             k == Cardinality({i \in 1..Len(rest) : rest[i][1] >= x[1]})
         IN  SubSeq(rest, 1, k) \o <<x>> \o SubSeq(rest, k + 1, Len(rest))

\* s[:n]
FirstN(s, n) == SubSeq(s, 1, Min(n, Len(s)))

\* the /query handler after its request checks; search is what
\* similarity_search gave, predicted lists the calls made to the reranker
query_memory_without_short_circuit(query, search, score) ==
    IF ~search.ok
    THEN [status |-> 500, error |-> <<"An error occurred during retrieval: ">>,
          predicted |-> <<>>]
    ELSE LET retrieved_docs == search.docs
             doc_contents == [i \in 1..Len(retrieved_docs) |-> retrieved_docs[i].page_content]
             pairs == [i \in 1..Len(doc_contents) |-> <<query, doc_contents[i]>>]
             scores == predict(pairs, score)
             scored_docs == sorted_reverse(zip(scores, retrieved_docs))
             top == FirstN(scored_docs, TOP_DOCS)
         IN  [status |-> 200,
              relevant_context |->
                  [i \in 1..Len(top) |->
                      [content |-> top[i][2].page_content, metadata |-> top[i][2].metadata]],
              predicted |-> <<pairs>>]

query_memory_without_rerank(query, search, score) ==
    IF ~search.ok
    THEN [status |-> 500, error |-> <<"An error occurred during retrieval: ">>,
          predicted |-> <<>>]
    ELSE LET top == FirstN(search.docs, TOP_DOCS)
         IN  [status |-> 200,
              relevant_context |->
                  [i \in 1..Len(top) |->
                      [content |-> top[i].page_content, metadata |-> top[i].metadata]],
              predicted |-> <<>>]

query_memory(query, search, score) ==
    IF ~search.ok
    THEN [status |-> 500, error |-> <<"An error occurred during retrieval: ">>,
          predicted |-> <<>>]
    ELSE LET retrieved_docs == search.docs
         IN  IF Len(retrieved_docs) = 0
             THEN [status |-> 200, relevant_context |-> <<>>, predicted |-> <<>>]
             ELSE LET doc_contents ==
                          [i \in 1..Len(retrieved_docs) |-> retrieved_docs[i].page_content]
                      pairs == [i \in 1..Len(doc_contents) |-> <<query, doc_contents[i]>>]
                      scores == predict(pairs, score)
                      scored_docs == sorted_reverse(zip(scores, retrieved_docs))
                      top == FirstN(scored_docs, TOP_DOCS)
                  IN  [status |-> 200,
                       relevant_context |->
                           [i \in 1..Len(top) |->
                               [content |-> top[i][2].page_content,
                                metadata |-> top[i][2].metadata]],
                       predicted |-> <<pairs>>]

\* the /add handler: the text joins the store, or the store raises
add_to_memory_service(store, text, ok) ==
    IF ok
    THEN [status |-> 200, store |-> store (+) SetToBag({text}),
          body |-> << <<"status", S(<<"success">>)>>,
                      <<"message", S(<<"Information successfully added to memory.">>)>> >>]
    ELSE [status |-> 500, store |-> store,
          body |-> << <<"error", S(<<"An error occurred while adding to memory: ">>)>> >>]

PassageDelimiter == <<"\n\n---\n\n">>

ConnectFailure == << <<"error", S(<<"Failed to connect to memory service: ">>)>> >>

NothingFound == << <<"result", S(<<"No", " relevant information found in memory.">>)>> >>

\* tools.retrieve_from_memory on the service's response: raise_for_status turns
\* every non-2xx answer into a RequestException
retrieve_from_memory(response) ==
    IF response.status # 200 THEN ConnectFailure
    ELSE IF "error" \in DOMAIN response THEN << <<"error", S(response.error)>> >>
    ELSE LET docs == response.relevant_context
             context == JoinWith([i \in 1..Len(docs) |-> docs[i].content], PassageDelimiter)
         IN  IF context = <<>> THEN NothingFound
             ELSE << <<"relevant_context", S(context)>> >>

\* tools.add_to_memory on the service's response
add_to_memory(response) ==
    IF response.status # 200 THEN ConnectFailure ELSE response.body

\* the memory service is not part of the run of the graph
NoMemory == [store |-> EmptyBag, score |-> [text \in Passages |-> 0], last |-> [op |-> "none"]]

----------------------------------------------------------------------------
(* Capabilities (src/src/tools.py): the result each one can return *)

\* a page whose text holds what Classify and HandleError look for
MarkerPage == <<"log: ", "Search returned an empty URL", " ", "401">>

\* pages is what the first search result can hold
search_the_web(pages) ==
    { <<<<"retrieved_content", S(page)>>>> : page \in pages } \cup
    {
      <<<<"result", S(<<"No", " search results found.">>)>>>>,
      << <<"error", S(<<"An error occurred during web search: ", "401", " Client Error">>)>>,
         <<"category", S(<<"search_error">>)>> >> }

execute_script ==
    { << <<"status", S(<<"error">>)>>,
         <<"error", S(<<"Script not found at path: ", "run.py">>)>> >>,
      << <<"status", S(<<"success">>)>>, <<"stdout", S(<<"ok">>)>>, <<"stderr", S(<<>>)>> >>,
      << <<"status", S(<<"script_error">>)>>, <<"stdout", S(<<>>)>>,
         <<"stderr", S(<<"Traceback">>)>>, <<"return_code", N(<<"1">>)>>,
         <<"category", S(<<"execution_error">>)>> >> }

run_shell_command ==
    { << <<"status", S(<<"success">>)>>, <<"stdout", S(<<"ok">>)>>, <<"stderr", S(<<>>)>> >>,
      << <<"status", S(<<"command_error">>)>>, <<"stdout", S(<<>>)>>,
         <<"stderr", S(<<"ls: cannot access">>)>>, <<"return_code", N(<<"2">>)>>,
         <<"category", S(<<"command_error">>)>> >>,
      << <<"status", S(<<"execution_error">>)>>,
         <<"error", S(<<"Command not found: '", "ls", "'. Please ensure it is installed and in your PATH.">>)>>,
         <<"category", S(<<"env_error">>)>> >> }

\* a result that is a str, not a dict
StrResult(text) == << <<"", S(text)>> >>

request_human_assistance ==
    {StrResult(<<"The human has been notified. Please await their response.">>)}

\* the results a capability can return, by name
ToolOutcomes(name) ==
    CASE name = "search_the_web" -> search_the_web(run.pages)
      [] name = "execute_script" -> execute_script
      [] name = "run_shell_command" -> run_shell_command
      [] name = "add_to_memory" ->
             {add_to_memory(add_to_memory_service(EmptyBag, <<"X is Y">>, ok)) : ok \in BOOLEAN}
      [] name = "request_human_assistance" -> request_human_assistance
      [] OTHER -> {}

\* the content ToolNode gives a ToolMessage: a str as it is, a dict through
\* json.dumps
ToolContent(result) ==
    IF result[1][1] = "" THEN result[1][2].v ELSE JsonDumps(result)

\* ToolNode: one ToolMessage per tool call of the last message, in order; a
\* dict result is written with json.dumps
ToolNode(msgs, results) ==
    [i \in 1..Len(Last(msgs).tool_calls) |->
        ToolMessage(ToolContent(results[i]),
                    Last(msgs).tool_calls[i].name,
                    Last(msgs).tool_calls[i].id)]

----------------------------------------------------------------------------
(* The human operator *)

\* answers that end the prompt loop of the PermissionGate
GateAnswers == {<<"y">>, <<"N">>}

\* what the operator types at the AssistanceGate
AssistanceAnswers ==
    {<<"try the cached copy">>, <<"Stop">>, <<"use the recomm", "end", "ed mirror">>}

----------------------------------------------------------------------------
(* Nodes of the graph: the dict each one returns *)

\* create_plan that leaves the log it was given
create_plan_keeping_messages(s, r) == [plan |-> invoke_llm(r).content]

create_plan(s, r) == [plan |-> invoke_llm(r).content, messages |-> <<>>]

SummaryText ==
    <<"Summary of early history: Initial attempts failed due to tool errors; proceeding with revised plan.">>

replan_without_summary(s, r) ==
    LET current_attempts == Get(s, "replan_attempts", 0)
        msgs == Get(s, "messages", <<>>)
    IN  [plan |-> invoke_llm(r).content,
         replan_attempts |-> current_attempts + 1,
         messages |-> IF Len(msgs) > PRUNE_WINDOW THEN LastN(msgs, PRUNE_WINDOW) ELSE msgs]

replan(s, r) ==
    LET current_attempts == Get(s, "replan_attempts", 0)
        msgs == Get(s, "messages", <<>>)
    IN  [plan |-> invoke_llm(r).content,
         replan_attempts |-> current_attempts + 1,
         messages |-> IF Len(msgs) > PRUNE_WINDOW
                      THEN <<HumanMessage(SummaryText)>> \o LastN(msgs, PRUNE_WINDOW)
                      ELSE msgs]

planner(s, r) ==
    LET current_messages == Get(s, "messages", <<>>)
    IN  [messages |-> current_messages \o <<invoke_llm(r)>>]

route_after_planner_without_assistance(s) ==
    IF Len(Last(s.messages).tool_calls) = 0 THEN "end" ELSE "permission"

route_after_planner(s) ==
    LET last_message == Last(s.messages)
    IN  IF Len(last_message.tool_calls) = 0 THEN "end"
        ELSE IF last_message.tool_calls[1].name = "request_human_assistance"
             THEN "assistance"
             ELSE "permission"

DenialText(tool_name) ==
    <<"The user has denied permission to run the '", tool_name,
      "' tool. Please choose a different approach.">>

\* request_permission with the denial branch lost: the state goes on unchanged
request_permission_without_denial(s, answer) == s

\* request_permission that notes an approval in the log
request_permission_noting_approval(s, answer) ==
    LET last_message == Last(s.messages)
    IN  IF Len(last_message.tool_calls) = 0 THEN s
        ELSE LET tool_name == last_message.tool_calls[1].name
             IN  IF tool_name \in DANGEROUS_TOOLS
                 THEN IF lower(answer) = <<"n">>
                      THEN [messages |-> ButLast(s.messages) \o
                                         <<HumanMessage(DenialText(tool_name))>>]
                      ELSE [messages |-> Append(s.messages,
                                                HumanMessage(<<"Permission granted.">>))]
                 ELSE s

\* answer is the operator's answer that ends the prompt loop (any other
\* answer asks again)
request_permission(s, answer) ==
    LET last_message == Last(s.messages)
    IN  IF Len(last_message.tool_calls) = 0 THEN s
        ELSE LET tool_name == last_message.tool_calls[1].name
             IN  IF tool_name \in DANGEROUS_TOOLS /\ lower(answer) = <<"n">>
                 THEN [messages |-> ButLast(s.messages) \o
                                    <<HumanMessage(DenialText(tool_name))>>]
                 ELSE s

exit_keywords == {<<"conclude">>, <<"final answer">>, <<"stop">>, <<"end">>, <<"exit">>}

check_for_exit_case_sensitive(s) ==
    LET msgs == Get(s, "messages", <<>>)
        humans == {i \in 1..Len(msgs) : IsHuman(msgs[i])}
        last_human_message ==
            IF humans = {} THEN <<>>
            ELSE msgs[CHOOSE i \in humans : \A j \in humans : j <= i].content
    IN  IF \E keyword \in exit_keywords : Contains(last_human_message, keyword)
        THEN "end" ELSE "replan"

check_for_exit(s) ==
    LET msgs == Get(s, "messages", <<>>)
        humans == {i \in 1..Len(msgs) : IsHuman(msgs[i])}
        last_human_message ==
            IF humans = {} THEN <<>>
            ELSE lower(msgs[CHOOSE i \in humans : \A j \in humans : j <= i].content)
    IN  IF \E keyword \in exit_keywords : Contains(last_human_message, keyword)
        THEN "end" ELSE "replan"

check_for_tool_error(s) ==
    LET last_message == Last(s.messages)
    IN  IF ~IsTool(last_message) THEN "planner"
        ELSE IF \/ Contains(last_message.content, <<Q, "status", Q, ":", " ", Q, "error", Q>>)
                \/ Contains(last_message.content, <<Q, "error", Q, ":">>)
                \/ Contains(last_message.content, <<Q, "result", Q, ":", " ", Q, "No">>)
                \/ Contains(last_message.content, <<"Search returned an empty URL">>)
             THEN "handle_error"
             ELSE "mark_step_complete"

after_permission_check(s) ==
    IF IsHuman(Last(s.messages)) THEN "planner" ELSE "tool_executor"

\* handle_human_assistance that leaves the request in the log
handle_human_assistance_without_response(s, response) == s

handle_human_assistance(s, response) ==
    LET last_message == Last(s.messages)
    IN  IF Len(last_message.tool_calls) = 0 THEN s
        ELSE [messages |-> ButLast(s.messages) \o <<HumanMessage(response)>>]

\* str(d) of a dict of strings
DictRepr(d) ==
    <<"{">> \o JoinWith([i \in 1..Len(d) |-> <<"'", d[i][1], "'", ":", " ", "'">> \o d[i][2].v \o <<"'">>],
                        <<",", " ">>) \o <<"}">>

\* (the back quotes of the summary text are left out of its fragments)
mark_step_complete(s) ==
    IF Len(Get(s, "messages", <<>>)) < 2 THEN s
    ELSE LET last_ai_message == s.messages[Len(s.messages) - 1]
         IN  IF ~HasToolCalls(last_ai_message) THEN s
             ELSE LET tool_call == last_ai_message.tool_calls[1]
                      completed_step_summary ==
                          <<"Executed tool ", tool_call.name, " with arguments ">>
                          \o DictRepr(tool_call.args) \o <<".">>
                  IN  [completed_plan_steps |->
                          Append(Get(s, "completed_plan_steps", <<>>), completed_step_summary)]

error_category(content_str) ==
    IF Contains(content_str, <<"401">>) \/ Contains(content_str, <<"Unauthorized">>)
    THEN "Authentication failure (e.g., invalid API key)"
    ELSE IF Contains(content_str, <<"403">>) \/ Contains(content_str, <<"Forbidden">>)
    THEN "Access forbidden (e.g., blocked site)"
    ELSE IF Contains(content_str, <<"429">>) \/ Contains(content_str, <<"Too Many Requests">>)
    THEN "Rate limit exceeded"
    ELSE IF Contains(content_str, <<"404">>) \/ Contains(content_str, <<"Not Found">>)
    THEN "Resource not found"
    ELSE "Unknown error"

handle_error(s) ==
    LET last_message == Last(s.messages)
        failed_tool_name ==
            IF Len(s.messages) > 1 /\ HasToolCalls(s.messages[Len(s.messages) - 1])
            THEN s.messages[Len(s.messages) - 1].tool_calls[1].name
            ELSE "unknown_tool"
        failed_actions == Get(s, "failed_actions", <<>>)
        error_message ==
            <<"The last tool call failed with the following output:\n\n">>
            \o last_message.content
            \o <<"\n\nError Category: ", error_category(last_message.content),
                 "\nPlease analyze this error and create a plan to recover.">>
    IN  [messages |-> Append(s.messages, HumanMessage(error_message)),
         failed_actions |-> IF failed_tool_name \in Range(failed_actions)
                            THEN failed_actions
                            ELSE Append(failed_actions, failed_tool_name)]

\* results[i] is what the capability named by the i-th tool call returned
execute_tools(s, results) ==
    [messages |-> Get(s, "messages", <<>>) \o ToolNode(s.messages, results)]

generate_final_report(s, r) ==
    LET steps_done == Get(s, "completed_plan_steps", <<>>)
        completed_steps_str ==
            IF Len(steps_done) = 0 THEN <<"No steps were executed.">>
            ELSE JoinWith([i \in 1..Len(steps_done) |-> <<"- ">> \o steps_done[i]], <<"\n">>)
        final_answer == invoke_llm(r).content
    IN  [final_report |->
            <<"# Agent Final Report\n\n## User Goal\n> ">> \o s.user_goal
            \o <<"\n\n## Executed Steps\n">> \o completed_steps_str
            \o <<"\n\n## Agent's Final Answer\n">> \o final_answer]

route_after_replan(s) ==
    IF Get(s, "replan_attempts", 0) >= MAX_REPLAN_ATTEMPTS THEN "circuit_breaker" ELSE "planner"

\* the dict run_agent_task hands to the graph
inputs(goal, session_messages) ==
    [user_goal |-> goal, messages |-> session_messages, completed_plan_steps |-> <<>>,
     replan_attempts |-> 0, failed_actions |-> <<>>]

\* The CircuitBreaker node; response is what the operator types.  No run
\* selects this node (BreakerNeverEntered below), so Next has no step for it.
handle_circuit_breaker(s, response) ==
    IF lower(response) = <<"exit">>
    THEN [messages |-> Append(s.messages, HumanMessage(<<"exit">>))]
    ELSE [messages |-> Append(s.messages, HumanMessage(response)), replan_attempts |-> 0]

----------------------------------------------------------------------------
(* Edges of the graph *)

AfterPlanner(route) ==
    CASE route = "assistance" -> "handle_human_assistance"
      [] route = "permission" -> "request_permission"
      [] route = "end" -> "final_report_generator"

AfterAssistance(route) ==
    CASE route = "replan" -> "replan"
      [] route = "end" -> "final_report_generator"

AfterReplan(route) ==
    CASE route = "planner" -> "planner"
      [] route = "circuit_breaker" -> "handle_circuit_breaker"

AfterPermission(route) ==
    CASE route = "planner" -> "planner"
      [] route = "tool_executor" -> "tool_executor"

AfterToolExecutor(route) ==
    CASE route = "mark_step_complete" -> "mark_step_complete"
      [] route = "handle_error" -> "handle_error"

\* no invocation has been put to the operator yet
NoGate == [id |-> <<>>, answer |-> <<>>]

----------------------------------------------------------------------------
(* Capability registry: the generated-tools directory and its manifest *)

\* the modules the sessions deal with; get_weather_free_api.py is in the
\* repository
ToolNames == {"get_news", "get_weather_free_api"}

\* the order in which a manifest or a directory listing is walked
ToolOrder == <<"get_news", "get_weather_free_api">>

\* (today - last_used).days > 30
STALE_DAYS == 30

\* the day the sessions run on, and two earlier days
Today == 40
StaleDay == 5
FreshDay == 39

\* a last_used value: an ISO string, a datetime.date (what yaml.safe_load
\* makes of a date written without quotes), or none
StrDate(day) == [t |-> "str", day |-> day]
DateObject(day) == [t |-> "date", day |-> day]
NoDate == [t |-> "none", day |-> 0]

\* a version value: the string '1.0', or the float 1.0 that yaml.safe_load
\* makes of 1.0 written without quotes
StrVersion == [t |-> "str", v |-> <<"1.0">>]
FloatVersion == [t |-> "float", v |-> <<"1.0">>]

\* a .py file of the directory: how its text starts, the metadata block it
\* carries (as written), and the function it defines
NoFile == [starts |-> "none"]
NoBlock == [name |-> "none"]

\* source that starts with its function
DefSource(name) == [starts |-> "def ", block |-> NoBlock, defines |-> name]

\* source that starts with a metadata block, as replan's prompt asks for
BlockSource(name) ==
    [starts |-> "---\n",
     block |-> [name |-> name, description |-> <<"Fetches the ", "weather">>,
                version |-> <<"1.0">>, tags |-> <<"weather">>, last_used |-> Today],
     defines |-> name]

\* extract_frontmatter: the block parsed by yaml.safe_load, {} without one
extract_frontmatter(file) ==
    IF file.starts = "---\n"
    THEN [name |-> file.block.name, description |-> file.block.description,
          version |-> FloatVersion, tags |-> file.block.tags,
          last_used |-> DateObject(file.block.last_used)]
    ELSE NoBlock

\* the names tools.py defines or imports
tools_globals ==
    {"os", "shlex", "subprocess", "requests", "search", "BeautifulSoup", "time", "random",
     "retrieve_from_memory", "add_to_memory", "http_get", "search_the_web", "write_file",
     "execute_script", "run_shell_command", "request_human_assistance"}

\* tools.write_file for file_path src/generated_tools/<name>.py: source that
\* starts with "def " gets the metadata block and a manifest record, and
\* update_manifest is not a name of tools.py
write_file(files, name, content) ==
    IF content.starts = "def " /\ "update_manifest" \notin tools_globals
    THEN [files |-> files,
          result |-> << <<"error", S(<<"Failed to write to file '", name,
                                       "': name 'update_manifest' is not defined">>)>>,
                        <<"category", S(<<"file_error">>)>> >>]
    ELSE [files |-> [files EXCEPT ![name] = content],
          result |-> << <<"status", S(<<"success">>)>>, <<"file_path", S(<<name>>)>> >>]

\* yaml.safe_load(manifest.yaml) or {}
NoManifest == [n \in {} |-> NoBlock]

\* manifest[tool_name] = metadata
Put(manifest, metadata) ==
    [n \in DOMAIN manifest \cup {metadata.name} |->
        IF n = metadata.name THEN metadata ELSE manifest[n]]

\* a manifest the operator put next to the repository's module
OperatorManifests ==
    {NoManifest} \cup
    {[n \in {"get_weather_free_api"} |->
        [name |-> n, description |-> <<"Fetches the ", "weather">>, version |-> StrVersion,
         tags |-> <<"weather">>, last_used |-> last_used]] :
        last_used \in {NoDate, StrDate(FreshDay), StrDate(StaleDay)}}

\* datetime.date.fromisoformat(last_used) raises TypeError for a date object
PruneRaises(metadata_map) ==
    \E n \in DOMAIN metadata_map : metadata_map[n].last_used.t = "date"

IsStale(meta) == meta.last_used.t = "str" /\ Today - meta.last_used.day > STALE_DAYS

\* metadata_map after the prune loop
Pruned(metadata_map) ==
    [n \in {m \in DOMAIN metadata_map : ~IsStale(metadata_map[m])} |-> metadata_map[n]]

\* any(tag.lower() in plan_lower for tag in tags) or plan_lower in desc
IsRelevant(meta, plan_text) ==
    \/ \E i \in 1..Len(meta.tags) : Contains(lower(plan_text), lower(<<meta.tags[i]>>))
    \/ Contains(lower(meta.description), lower(plan_text))

\* relevant_tools, in the order of the manifest
relevant_tools(metadata_map, plan_text) ==
    SelectSeq(ToolOrder,
              LAMBDA n : /\ n \in DOMAIN metadata_map
                         /\ plan_text # <<>> => IsRelevant(metadata_map[n], plan_text))

\* exec_module raises SyntaxError on a module that starts with a metadata
\* block
Importable(file) == file.starts = "def "

\* the module is there, can be imported and defines a callable of its name
Loadable(files, n) ==
    files[n] # NoFile /\ Importable(files[n]) /\ files[n].defines = n

\* the first part of load_generated_tools: manifest read, prune, filter and
\* the load loop.  loaded_tools are the tools loaded, touches the records
\* handed to update_manifest on the way, raises whether the loop ends by an
\* exception
load_generated_tools(manifest, files, plan_text) ==
    IF PruneRaises(manifest)
    THEN [metadata_map |-> manifest, loaded_tools |-> <<>>, touches |-> <<>>, raises |-> TRUE]
    ELSE LET metadata_map == Pruned(manifest)
             relevant == relevant_tools(metadata_map, plan_text)
             broken == {i \in 1..Len(relevant) :
                           files[relevant[i]] # NoFile /\ ~Importable(files[relevant[i]])}
             reached == IF broken = {} THEN relevant
                        ELSE SubSeq(relevant, 1,
                                    (CHOOSE i \in broken : \A j \in broken : i <= j) - 1)
             loaded_tools == SelectSeq(reached, LAMBDA n : Loadable(files, n))
         IN  [metadata_map |-> metadata_map,
              loaded_tools |-> loaded_tools,
              touches |-> [i \in 1..Len(loaded_tools) |->
                              [metadata_map[loaded_tools[i]] EXCEPT
                                  !.last_used = StrDate(Today)]],
              raises |-> broken # {}]

\* the fallback loop of load_generated_tools: the records it hands to
\* update_manifest for the modules that metadata_map does not hold
rebuild(metadata_map, files) ==
    LET missing == SelectSeq(ToolOrder,
                             LAMBDA n : /\ files[n] # NoFile
                                        /\ n \notin DOMAIN metadata_map
                                        /\ extract_frontmatter(files[n]) # NoBlock)
    IN  [i \in 1..Len(missing) |-> extract_frontmatter(files[missing[i]])]

\* plan texts a session can hold
PlanTexts == {<<"1. search the web", "\n", "2. remember">>, <<"1. get the ", "weather">>}

Sessions == {1, 2}

\* a session that is not inside load_generated_tools; last is what its last
\* call returned, offered the tools its create_plan put into the plan prompt
IdleSession(last, offered) ==
    [pos |-> "idle", caller |-> "none", plan_text |-> <<>>, metadata_map |-> NoManifest,
     loaded_tools |-> <<>>, queue |-> <<>>, raises |-> FALSE, pending |-> NoBlock,
     read |-> NoManifest, after |-> "none", last |-> last, offered |-> offered]

NoCall == [caller |-> "none"]

\* the registry is not part of the run of the graph
NoRegistry ==
    [manifest |-> NoManifest, files |-> [n \in ToolNames |-> NoFile],
     written |-> NoManifest, sessions |-> [s \in Sessions |-> IdleSession(NoCall, {})]]

----------------------------------------------------------------------------
(* Requests to the memory service *)

the_query == <<"what is X">>

\* the service after load_models_and_db on a new store, with any reranker
InitMemory ==
    /\ pc = "memory_service"
    /\ state = NoState
    /\ steps = 0
    /\ gate = NoGate
    /\ denied = {}
    /\ executed = {}
    /\ returned = <<>>
    /\ replans = 0
    /\ run = [texts |-> {}, limit |-> 0, single |-> {}, multi |-> {}, pages |-> {}]
    /\ errors = 0
    /\ registry = NoRegistry
    /\ \E score \in [Passages -> Scores] :
           memory = [store |-> EmptyBag, score |-> score, last |-> [op |-> "none"]]

\* the capability add_to_memory, with the service's /add handler
AddToMemory ==
    /\ pc = "memory_service"
    /\ BagCardinality(memory.store) < MaxDocs
    /\ \E text \in Passages, ok \in BOOLEAN :
           LET response == add_to_memory_service(memory.store, text, ok)
           IN  memory' = [memory EXCEPT
                   !.store = response.store,
                   !.last = [op |-> "add", result |-> add_to_memory(response)]]
    /\ UNCHANGED <<pc, state, steps, gate, denied, executed, returned, replans, run, registry,
                   errors>>

\* the capability retrieve_from_memory, with the service's /query handler
RetrieveFromMemory ==
    /\ pc = "memory_service"
    /\ \E search \in similarity_search(memory.store) :
           LET response == query_memory(the_query, search, memory.score)
           IN  memory' = [memory EXCEPT
                   !.last = [op |-> "query", search |-> search, response |-> response,
                             result |-> retrieve_from_memory(response)]]
    /\ UNCHANGED <<pc, state, steps, gate, denied, executed, returned, replans, run, registry,
                   errors>>

NextMemory == AddToMemory \/ RetrieveFromMemory

SpecMemory == InitMemory /\ [][NextMemory]_vars

----------------------------------------------------------------------------
(* Sessions on the registry *)

graph_vars == <<pc, state, steps, gate, denied, executed, returned, replans, run, errors>>

\* the directory as the repository ships it, with or without a manifest
InitRegistry ==
    /\ pc = "registry"
    /\ state = NoState
    /\ steps = 0
    /\ gate = NoGate
    /\ denied = {}
    /\ executed = {}
    /\ returned = <<>>
    /\ replans = 0
    /\ run = [texts |-> {}, limit |-> 0, single |-> {}, multi |-> {}, pages |-> {}]
    /\ errors = 0
    /\ memory = NoMemory
    /\ \E manifest \in OperatorManifests :
           registry = [NoRegistry EXCEPT
               !.manifest = manifest,
               !.files["get_weather_free_api"] = DefSource("get_weather_free_api")]

Session(s) == registry.sessions[s]

\* a node of session s calls load_generated_tools: create_plan without a plan
\* text, planner, replan and execute_tools with the plan of the session
Load(s) ==
    /\ Session(s).pos = "idle"
    /\ \E call \in {[caller |-> "create_plan", plan_text |-> <<>>]}
                 \cup {[caller |-> "execute_tools", plan_text |-> p] : p \in PlanTexts} :
           LET r == load_generated_tools(registry.manifest, registry.files, call.plan_text)
           IN  registry' = [registry EXCEPT
                   !.sessions[s] = [@ EXCEPT
                       !.pos = "load", !.caller = call.caller, !.plan_text = call.plan_text,
                       !.metadata_map = r.metadata_map, !.loaded_tools = r.loaded_tools,
                       !.queue = r.touches, !.raises = r.raises]]
    /\ UNCHANGED <<graph_vars, memory>>

\* update_manifest up to the manifest being read
UpdateRead(s) ==
    /\ Session(s).pos \in {"load", "rebuild"}
    /\ Session(s).queue # <<>>
    /\ registry' = [registry EXCEPT
           !.sessions[s] = [@ EXCEPT
               !.pos = "update", !.after = Session(s).pos,
               !.pending = Head(Session(s).queue), !.queue = Tail(Session(s).queue),
               !.read = registry.manifest]]
    /\ UNCHANGED <<graph_vars, memory>>

\* update_manifest from there: the manifest read, with the record, is written
UpdateWrite(s) ==
    /\ Session(s).pos = "update"
    /\ registry' = [registry EXCEPT
           !.manifest = Put(Session(s).read, Session(s).pending),
           !.written = Put(registry.written, Session(s).pending),
           !.sessions[s] = [@ EXCEPT
               !.pos = Session(s).after, !.after = "none",
               !.pending = NoBlock, !.read = NoManifest]]
    /\ UNCHANGED <<graph_vars, memory>>

\* the load loop is over: its exception ends the session's run, otherwise the
\* fallback loop lists the directory
Rebuild(s) ==
    /\ Session(s).pos = "load"
    /\ Session(s).queue = <<>>
    /\ registry' = [registry EXCEPT
           !.sessions[s] =
               IF Session(s).raises
               THEN IdleSession([caller |-> Session(s).caller, raised |-> TRUE],
                                Session(s).offered)
               ELSE [@ EXCEPT !.pos = "rebuild",
                              !.queue = rebuild(Session(s).metadata_map, registry.files)]]
    /\ UNCHANGED <<graph_vars, memory>>

\* load_generated_tools returns loaded_tools to the node
Return(s) ==
    /\ Session(s).pos = "rebuild"
    /\ Session(s).queue = <<>>
    /\ registry' = [registry EXCEPT
           !.sessions[s] =
               IdleSession([caller |-> Session(s).caller, raised |-> FALSE,
                            plan_text |-> Session(s).plan_text,
                            loaded_tools |-> Session(s).loaded_tools],
                           IF Session(s).caller = "create_plan"
                           THEN Range(Session(s).loaded_tools)
                           ELSE Session(s).offered)]
    /\ UNCHANGED <<graph_vars, memory>>

\* the agent of session s writes the source of a capability with write_file
WriteFile(s) ==
    /\ Session(s).pos = "idle"
    /\ \E name \in ToolNames, content \in {"def ", "---\n"} :
           LET r == write_file(registry.files, name,
                               IF content = "def " THEN DefSource(name) ELSE BlockSource(name))
           IN  registry' = [registry EXCEPT
                   !.files = r.files,
                   !.sessions[s] = IdleSession([caller |-> "write_file", name |-> name,
                                                content |-> content, result |-> r.result],
                                               Session(s).offered)]
    /\ UNCHANGED <<graph_vars, memory>>

NextRegistry ==
    \E s \in Sessions :
        Load(s) \/ UpdateRead(s) \/ UpdateWrite(s) \/ Rebuild(s) \/ Return(s) \/ WriteFile(s)

SpecRegistry == InitRegistry /\ [][NextRegistry]_vars

----------------------------------------------------------------------------
(* The run: app.stream(inputs) *)

Init ==
    /\ pc = "create_plan"
    /\ state = Write(NoState, inputs(user_goal_text, <<>>))
    /\ steps = 0
    /\ gate = NoGate
    /\ denied = {}
    /\ executed = {}
    /\ returned = <<>>
    /\ replans = 0
    /\ run = [texts |-> TextResponses, limit |-> MaxSteps, single |-> SingleCalls,
              multi |-> MultiCalls, pages |-> {<<"X is Y">>}]
    /\ memory = NoMemory
    /\ registry = NoRegistry
    /\ errors = 0

\* the same run with a provider that may fail on every request
InitFaulty ==
    /\ pc = "create_plan"
    /\ state = Write(NoState, inputs(user_goal_text, <<>>))
    /\ steps = 0
    /\ gate = NoGate
    /\ denied = {}
    /\ executed = {}
    /\ returned = <<>>
    /\ replans = 0
    /\ run = [texts |-> FaultyTextResponses, limit |-> MaxFaultySteps,
              single |-> SingleCalls, multi |-> MultiCalls, pages |-> {<<"X is Y">>}]
    /\ memory = NoMemory
    /\ registry = NoRegistry
    /\ errors = 0

\* a run for the goal of scenario A, with pages of any text
InitScenario ==
    /\ pc = "create_plan"
    /\ state = Write(NoState, inputs(user_goal_text, <<>>))
    /\ steps = 0
    /\ gate = NoGate
    /\ denied = {}
    /\ executed = {}
    /\ returned = <<>>
    /\ replans = 0
    /\ run = [texts |-> TextResponses, limit |-> MaxScenarioSteps,
              single |-> ScenarioSingleCalls, multi |-> ScenarioMultiCalls,
              pages |-> {<<"X is Y">>, MarkerPage}]
    /\ memory = NoMemory
    /\ registry = NoRegistry
    /\ errors = 0

\* one more graph step may run
Running(node) ==
    /\ pc = node
    /\ steps < run.limit
    /\ steps < recursion_limit
    /\ steps' = steps + 1
    /\ UNCHANGED <<run, memory, registry>>

\* an exception leaves the node: app.stream ends and the state is not written
Raised == pc' = "raised" /\ state' = state

Plan ==
    /\ Running("create_plan")
    /\ \E r \in run.texts :
           IF invoke_llm_raises(r) THEN Raised
           ELSE /\ state' = Write(state, create_plan(state, r))
                /\ pc' = "planner"
    /\ UNCHANGED <<gate, denied, executed, returned, replans, errors>>

Decide ==
    /\ Running("planner")
    /\ \E r \in DecideResponses(steps) :
           IF invoke_llm_raises(r) THEN Raised
           ELSE /\ state' = Write(state, planner(state, r))
                /\ pc' = AfterPlanner(route_after_planner(state'))
    /\ UNCHANGED <<gate, denied, executed, returned, replans, errors>>

PermissionGate ==
    /\ Running("request_permission")
    /\ LET call == Last(messages).tool_calls[1]
           asked == call.name \in DANGEROUS_TOOLS
       IN  \E answer \in (IF asked THEN GateAnswers ELSE {<<>>}) :
               /\ state' = Write(state, request_permission(state, answer))
               /\ gate' = [id |-> call.id, answer |-> lower(answer)]
               /\ denied' = IF lower(answer) = <<"n">> THEN denied \cup {call.id} ELSE denied
    /\ pc' = AfterPermission(after_permission_check(state'))
    /\ UNCHANGED <<executed, returned, replans, errors>>

Execute ==
    /\ Running("tool_executor")
    /\ LET calls == Last(messages).tool_calls
       IN  /\ \E results \in [1..Len(calls) -> UNION {ToolOutcomes(calls[i].name) : i \in 1..Len(calls)}] :
                 /\ \A i \in 1..Len(calls) : results[i] \in ToolOutcomes(calls[i].name)
                 /\ state' = Write(state, execute_tools(state, results))
                 /\ returned' = results
           /\ executed' = executed \cup
                 {[name |-> calls[i].name, id |-> calls[i].id,
                   approved |-> gate = [id |-> calls[i].id, answer |-> <<"y">>]] : i \in 1..Len(calls)}
    /\ pc' = AfterToolExecutor(check_for_tool_error(state'))
    /\ UNCHANGED <<gate, denied, replans, errors>>

MarkComplete ==
    /\ Running("mark_step_complete")
    /\ state' = Write(state, mark_step_complete(state))
    /\ pc' = "planner"
    /\ UNCHANGED <<gate, denied, executed, returned, replans, errors>>

HandleError ==
    /\ Running("handle_error")
    /\ state' = Write(state, handle_error(state))
    /\ errors' = errors + 1
    /\ pc' = "replan"
    /\ UNCHANGED <<gate, denied, executed, returned, replans>>

Replan ==
    /\ Running("replan")
    /\ \E r \in run.texts :
           IF invoke_llm_raises(r) THEN Raised /\ replans' = replans
           ELSE /\ state' = Write(state, replan(state, r))
                /\ replans' = replans + 1
                /\ pc' = AfterReplan(route_after_replan(state'))
    /\ UNCHANGED <<gate, denied, executed, returned, errors>>

AssistanceGate ==
    /\ Running("handle_human_assistance")
    /\ \E response \in AssistanceAnswers :
           state' = Write(state, handle_human_assistance(state, response))
    /\ pc' = AfterAssistance(check_for_exit(state'))
    /\ UNCHANGED <<gate, denied, executed, returned, replans, errors>>

Report ==
    /\ Running("final_report_generator")
    /\ \E r \in run.texts \cup {RequestException} :
           IF invoke_llm_raises(r) THEN Raised
           ELSE /\ state' = Write(state, generate_final_report(state, r))
                /\ pc' = "END"
    /\ UNCHANGED <<gate, denied, executed, returned, replans, errors>>

Next ==
    \/ Plan
    \/ Decide
    \/ PermissionGate
    \/ Execute
    \/ MarkComplete
    \/ HandleError
    \/ Replan
    \/ AssistanceGate
    \/ Report

Spec == Init /\ [][Next]_vars

SpecFaulty == InitFaulty /\ [][Next]_vars

SpecScenario == InitScenario /\ [][Next]_vars

----------------------------------------------------------------------------
(* The CLI session: run_agent_task for one goal after the other *)

\* the session messages a run can be given
SessionMessages ==
    {<<>>,
     <<HumanMessage(<<"an earlier goal">>)>>,
     <<HumanMessage(<<"an earlier goal">>),
       AIMessage(<<>>, <<RawCall("search_the_web", ArgsOf("search_the_web"), <<0, 1>>)>>)>>}

\* an engine that asks for assistance whenever it invokes anything
AssistanceOnly ==
    [texts |-> TextResponses, limit |-> MaxLongSteps,
     single |-> {"request_human_assistance"}, multi |-> {}, pages |-> {}]

ScenarioRun ==
    [texts |-> TextResponses, limit |-> MaxScenarioSteps,
     single |-> ScenarioSingleCalls, multi |-> ScenarioMultiCalls,
     pages |-> {<<"X is Y">>, MarkerPage}]

\* what the stream yields for final_report_generator: the dict the node returned
final_state == [final_report |-> state.final_report]

\* run_agent_task's return value with the messages of the whole state
run_agent_task_returning_log(value, session_messages) == messages

\* run_agent_task's return value; value is final_state, which is None (here
\* the empty dict, falsy as well) when the stream yielded no report
run_agent_task(value, session_messages) ==
    IF DOMAIN value = {} THEN session_messages ELSE Get(value, "messages", <<>>)

InitSession ==
    /\ pc = "create_plan"
    /\ \E menu \in {AssistanceOnly, ScenarioRun}, session_messages \in SessionMessages :
           /\ run = [texts |-> menu.texts, limit |-> menu.limit, single |-> menu.single,
                     multi |-> menu.multi, pages |-> menu.pages,
                     session_messages |-> session_messages, goal |-> 1]
           /\ state = Write(NoState, inputs(user_goal_text, session_messages))
    /\ steps = 0
    /\ gate = NoGate
    /\ denied = {}
    /\ executed = {}
    /\ returned = <<>>
    /\ replans = 0
    /\ memory = NoMemory
    /\ registry = NoRegistry
    /\ errors = 0

\* app.stream has run recursion_limit super-steps and the graph has not
\* reached END: GraphRecursionError leaves run_agent_task, and cli's handler
\* ends the session
GraphRecursionError ==
    /\ pc \notin {"END", "raised", "cut_off"}
    /\ steps >= recursion_limit
    /\ pc' = "cut_off"
    /\ UNCHANGED <<state, steps, gate, denied, executed, returned, replans, run, memory,
                   registry, errors>>

\* the loop of cli: the run of a goal has returned, and the next goal runs on
\* the messages it handed back
cli ==
    /\ pc = "END"
    /\ run.goal < MaxGoals
    /\ LET session_messages == run_agent_task(final_state, run.session_messages)
       IN  /\ run' = [run EXCEPT !.session_messages = session_messages, !.goal = @ + 1]
           /\ state' = Write(NoState, inputs(user_goal_text, session_messages))
    /\ pc' = "create_plan"
    /\ steps' = 0
    /\ gate' = NoGate
    /\ denied' = {}
    /\ executed' = {}
    /\ returned' = <<>>
    /\ replans' = 0
    /\ errors' = 0
    /\ UNCHANGED <<memory, registry>>

NextSession ==
    \/ Next
    \/ GraphRecursionError
    \/ cli

SpecSession == InitSession /\ [][NextSession]_vars

----------------------------------------------------------------------------
(* Properties *)

\* C1: a capability of the dangerous set is executed only after the operator
\* approved that very invocation at the PermissionGate, whatever assistant
\* message the reasoning engine returned.
C1_DangerousOnlyAfterApproval ==
    \A e \in executed : e.name \in DANGEROUS_TOOLS => e.approved

\* the denial-explanation message for the call the gate last asked about
IsDenialOf(m, call) == m = HumanMessage(DenialText(call.name))

\* C2: when the operator denies a dangerous invocation, that invocation is
\* never executed, and the next node is Decide (planner) with the
\* denial-explanation message as the last entry of the log, in place of the
\* denied assistant message.
C2_DenialGoesBackToDecide ==
    /\ [][(pc = "request_permission" /\ gate'.answer = <<"n">>) =>
            /\ pc' = "planner"
            /\ IsDenialOf(Last(messages'), Last(messages).tool_calls[1])
            /\ ButLast(messages') = ButLast(messages)
            /\ executed' = executed]_vars
    /\ [](\A e \in executed : e.id \notin denied)

\* C2 happens: Decide is about to run on a log that ends with the denial of
\* run_shell_command
C2_Witness ==
    /\ pc = "planner"
    /\ gate.answer = <<"n">>
    /\ gate.id \in denied
    /\ Len(messages) > 0
    /\ Last(messages) = HumanMessage(DenialText("run_shell_command"))

\* C3: replan_attempts of the session state goes up by exactly 1 at each
\* Replan transition, is set to 0 only by the override at the CircuitBreaker,
\* and is left alone by every other transition.
C3_ReplanAttemptsCountsReplans ==
    [][IF pc = "replan" THEN replan_attempts' = replan_attempts + 1
       ELSE IF pc = "handle_circuit_breaker" THEN replan_attempts' \in {replan_attempts, 0}
       ELSE replan_attempts' = replan_attempts]_vars

\* C4: a Replan transition that leaves replan_attempts at MAX or more, and in
\* particular the third Replan transition with no override in between, is
\* followed by the CircuitBreaker and not by Decide.
C4_ThirdReplanTripsBreaker ==
    [][(pc = "replan" /\ (replan_attempts' >= MAX_REPLAN_ATTEMPTS \/
                          replans' >= MAX_REPLAN_ATTEMPTS))
          => pc' = "handle_circuit_breaker"]_vars

\* what the operator types at the CircuitBreaker to steer the run
BreakerGuidance == {<<"use the mirror site">>}

Results == {i \in 1..Len(messages) : IsTool(messages[i])}

\* the log positions that hold an assistant message carrying an invocation
\* that was not denied
Invoking ==
    {i \in 1..Len(messages) :
        HasToolCalls(messages[i]) /\ messages[i].tool_calls[1].id \notin denied}

\* an invocation is waiting at a gate or at Execute
Pending == pc \in {"request_permission", "tool_executor", "handle_human_assistance"}

\* C7: whenever no invocation is waiting for its gate or its execution, the
\* log holds as many CapabilityResults as assistant messages that carry an
\* invocation which was not denied.
C7_OneResultPerInvocation ==
    ~Pending => Cardinality(Results) = Cardinality(Invoking)

\* C8: each CapabilityResult of the log comes right after the assistant
\* message whose invocation it answers.
C8_ResultFollowsItsInvocation ==
    \A i \in Results :
        /\ i > 1
        /\ HasToolCalls(messages[i - 1])
        /\ \E k \in 1..Len(messages[i - 1].tool_calls) :
               messages[i - 1].tool_calls[k].id = messages[i].tool_call_id

\* C9: every Execute transition invokes exactly one capability and appends
\* exactly one CapabilityResult, and no assistant message of the log carries
\* more than one invocation.
C9_OneInvocationPerExecute ==
    /\ [][pc = "tool_executor" =>
            /\ Len(messages') = Len(messages) + 1
            /\ Cardinality(executed') = Cardinality(executed) + 1]_vars
    /\ [](\A i \in 1..Len(messages) :
            IsAI(messages[i]) => Len(messages[i].tool_calls) <= 1)

\* dict.get(key) is a string that starts with the fragments of prefix
StartsWith(str, prefix) == Len(str) >= Len(prefix) /\ SubSeq(str, 1, Len(prefix)) = prefix

\* a result that carries an error discriminator (a status other than
\* success), an error field, or the no-usable-result marker
IsFailureResult(d) ==
    \E i \in 1..Len(d) :
        \/ d[i][1] = "status" /\ d[i][2].v # <<"success">>
        \/ d[i][1] = "error"
        \/ d[i][1] = "result" /\ StartsWith(d[i][2].v, <<"No">>)

\* C10: a capability result with an error discriminator, an error field or a
\* no-usable-result marker is routed by Classify to HandleError, never to
\* MarkComplete.
C10_FailureResultGoesToHandleError ==
    [][(pc = "tool_executor" /\ IsFailureResult(Last(returned')))
          => pc' = "handle_error"]_vars

\* the CircuitBreaker is never entered
BreakerNeverEntered == pc # "handle_circuit_breaker"

\* C11: a transport failure or non-2xx answer of the provider during Decide
\* does not send the run to Report: the synthetic assistant turn it leaves in
\* the log is followed by replanning.
C11_ProviderFailureIsReplanned ==
    [][(pc = "planner" /\ Len(messages') > 0
            /\ Last(messages') = AIMessage(ApiFailure, <<>>))
          => pc' # "final_report_generator"]_vars

\* C12: no failure of a capability or of the reasoning provider (transport
\* failure, malformed response) is raised out of the graph: the run is always
\* at a node of the graph or at its end.
C12_NothingRaisedOutOfTheLoop == pc # "raised"

\* C13: a Decide transition is followed by Report when the assistant message
\* it appended carries no invocation, by the AssistanceGate when its invocation
\* names request_human_assistance, and by the PermissionGate otherwise.
C13_RoutingAfterDecide ==
    [][(pc = "planner" /\ pc' # "raised") =>
          LET m == Last(messages')
          IN  pc' = IF ~HasToolCalls(m) THEN "final_report_generator"
                    ELSE IF m.tool_calls[1].name = "request_human_assistance"
                         THEN "handle_human_assistance"
                         ELSE "request_permission"]_vars

\* C13 happens: Decide asked for the operator's help and the AssistanceGate is
\* next
C13_Witness ==
    /\ pc = "handle_human_assistance"
    /\ HasToolCalls(Last(messages))
    /\ Last(messages).tool_calls[1].name = "request_human_assistance"

\* the lower-cased text holds one of the termination keywords
MatchesExitKeyword(text) == \E keyword \in exit_keywords : Contains(lower(text), keyword)

\* C14: an AssistanceGate transition puts the operator's response at the end
\* of the log as a human turn, and is followed by Report when that response
\* holds a termination keyword (in any letter case) and by Replan otherwise.
C14_RoutingAfterAssistance ==
    [][pc = "handle_human_assistance" =>
          /\ IsHuman(Last(messages'))
          /\ pc' = IF MatchesExitKeyword(Last(messages').content)
                    THEN "final_report_generator" ELSE "replan"]_vars

\* C14 happens: the operator answered "Stop" at the AssistanceGate and Report
\* is next
C14_Witness ==
    /\ pc = "final_report_generator"
    /\ Len(messages) > 0
    /\ Last(messages) = HumanMessage(<<"Stop">>)

\* a memory query was answered and its similarity search gave candidates
Queried == memory.last.op = "query" /\ memory.last.search.ok

\* C16: a memory query whose similarity search returns no candidate yields
\* the nothing-found result, which is not an error result, and the reranker
\* is not called (so never on an empty list).
C16_EmptySearchIsNothingFound ==
    (Queried /\ Len(memory.last.search.docs) = 0) =>
        /\ memory.last.result = NothingFound
        /\ \A i \in 1..Len(memory.last.result) : memory.last.result[i][1] # "error"
        /\ memory.last.response.status = 200
        /\ \A i \in 1..Len(memory.last.response.predicted) :
               memory.last.response.predicted[i] # <<>>

\* C16 happens: the store is empty, it was queried and nothing was found
C16_Witness ==
    /\ Queried
    /\ memory.store = EmptyBag
    /\ memory.last.search.docs = <<>>
    /\ memory.last.result = NothingFound

\* the passages the service returned, best first
Returned == memory.last.response.relevant_context

\* the reranker's score of a passage
ScoreOf(text) == memory.score[text]

\* C17: for a non-empty list of candidates (at most 10) and any scores, the
\* memory query returns min(3, n) passages; they are candidates, no candidate
\* left out scores higher than one returned, and they are in descending order
\* of score; the i-th score returned is the i-th highest score of the
\* candidates, whatever order the similarity search gave them in; and the
\* capability's result is those passages joined in that order by the
\* delimiter (when that text is not empty).
C17_TopThreeByScore ==
    (Queried /\ Len(memory.last.search.docs) > 0) =>
        LET docs == memory.last.search.docs
            n == Len(docs)
        IN  /\ n <= MEMORY_K
            /\ Len(Returned) = Min(TOP_DOCS, n)
            /\ \A text \in Passages :
                   Cardinality({i \in 1..Len(Returned) : Returned[i].content = text})
                       <= Occurrences(docs, text)
            /\ \A j \in 1..n :
                   \/ \A i \in 1..Len(Returned) :
                          ScoreOf(docs[j].page_content) <= ScoreOf(Returned[i].content)
                   \/ \E i \in 1..Len(Returned) : Returned[i].content = docs[j].page_content
            /\ \A i \in 1..Len(Returned) :
                   /\ i > 1 => ScoreOf(Returned[i - 1].content) >= ScoreOf(Returned[i].content)
                   /\ Cardinality({j \in 1..n : ScoreOf(docs[j].page_content)
                                                    > ScoreOf(Returned[i].content)}) < i
                   /\ Cardinality({j \in 1..n : ScoreOf(docs[j].page_content)
                                                    >= ScoreOf(Returned[i].content)}) >= i
            /\ LET context == JoinWith([i \in 1..Len(Returned) |-> Returned[i].content],
                                        PassageDelimiter)
               IN  context # <<>> =>
                       memory.last.result = << <<"relevant_context", S(context)>> >>

\* C17 happens: four candidates, the one the similarity search put first
\* scores lowest and is left out, the one it put last is returned first
C17_Witness ==
    /\ Queried
    /\ Len(memory.last.search.docs) = 4
    /\ \A j \in 2..4 : ScoreOf(memory.last.search.docs[1].page_content)
                           < ScoreOf(memory.last.search.docs[j].page_content)
    /\ \A j \in 1..3 : ScoreOf(memory.last.search.docs[j].page_content)
                           < ScoreOf(memory.last.search.docs[4].page_content)
    /\ Len(Returned) = 3
    /\ Returned[1].content = memory.last.search.docs[4].page_content
    /\ \A i \in 1..3 : Returned[i].content # memory.last.search.docs[1].page_content

\* C15: when sessions write records of different capabilities to the shared
\* manifest at the same time, each write is kept: the manifest holds, for
\* every capability a session has written a record of, the record written
\* last.
C15_NoLostManifestUpdate ==
    \A n \in DOMAIN registry.written :
        n \in DOMAIN registry.manifest /\ registry.manifest[n] = registry.written[n]

\* the capability is registered, not stale, and its module can be loaded
Registered(n) ==
    /\ n \in DOMAIN registry.manifest
    /\ ~IsStale(registry.manifest[n])
    /\ Loadable(registry.files, n)

\* C19: the relevance filter does not hide a capability from Execute: when
\* execute_tools loads the generated tools, whatever the plan text is, every
\* capability that create_plan offered to the session before and that is still
\* registered, not stale and loadable is among the tools loaded.
C19_OfferedStaysExecutable ==
    [][\A s \in Sessions :
          (/\ Session(s).pos = "idle"
           /\ registry'.sessions[s].pos = "load"
           /\ registry'.sessions[s].caller = "execute_tools"
           /\ ~registry'.sessions[s].raises)
          => \A n \in Session(s).offered :
                 Registered(n) => n \in Range(registry'.sessions[s].loaded_tools)]_vars

\* session s has just written a capability's source with write_file
Wrote(s) ==
    /\ Session(s).pos = "idle"
    /\ registry'.sessions[s].pos = "idle"
    /\ registry'.sessions[s] # Session(s)
    /\ registry'.sessions[s].last.caller = "write_file"

\* C20: a write_file of a capability's source into generated_tools succeeds
\* and leaves the source in the directory; and when load_generated_tools next
\* returns to a session, the manifest holds, for every module that embeds a
\* metadata block, a record equal to that block.
C20_WrittenCapabilityIsRegistered ==
    [][\A s \in Sessions :
          /\ Wrote(s) =>
                 LET w == registry'.sessions[s].last
                 IN  /\ w.result[1] = <<"status", S(<<"success">>)>>
                     /\ registry'.files[w.name] # NoFile
                     /\ registry'.files[w.name].starts = w.content
          /\ (Session(s).pos = "rebuild" /\ registry'.sessions[s].pos = "idle") =>
                 \A n \in ToolNames :
                     (registry.files[n] # NoFile /\ registry.files[n].block # NoBlock) =>
                         /\ n \in DOMAIN registry'.manifest
                         /\ registry'.manifest[n] = extract_frontmatter(registry.files[n])]_vars

\* C18: once Plan has run, and after every Replan, the plan of the session
\* state is not empty, whatever the provider returned (a failed or an empty
\* completion included).
C18_PlanNeverEmpty ==
    pc \notin {"create_plan", "raised"} => Get(state, "plan", <<>>) # <<>>

\* what the engine and the capabilities put in the log, without the operator's
\* and the controller's messages
IsEngineOrResult(m) == ~IsHuman(m)
EngineLog == SelectSeq(messages, IsEngineOrResult)

\* m is an assistant message that invokes name alone
InvokesAlone(m, name) ==
    HasToolCalls(m) /\ Len(m.tool_calls) = 1 /\ m.tool_calls[1].name = name

\* the results of a search and of a memory write that succeeded
SearchSuccesses == {<<<<"retrieved_content", S(page)>>>> : page \in run.pages}
RememberSuccess == add_to_memory(add_to_memory_service(EmptyBag, <<"X is Y">>, TRUE))

\* scenario A: the engine invoked the search, then the memory write, then gave
\* a final answer, and both capabilities succeeded on the first try
ScenarioA ==
    /\ pc = "END"
    /\ Len(EngineLog) = 5
    /\ InvokesAlone(EngineLog[1], "search_the_web")
    /\ IsTool(EngineLog[2])
    /\ \E result \in SearchSuccesses : EngineLog[2].content = ToolContent(result)
    /\ InvokesAlone(EngineLog[3], "add_to_memory")
    /\ IsTool(EngineLog[4])
    /\ EngineLog[4].content = ToolContent(RememberSuccess)
    /\ IsAI(EngineLog[5]) /\ ~HasToolCalls(EngineLog[5])
    /\ EngineLog[5].content # ApiFailure

\* the summary MarkComplete writes for one invocation
StepSummary(name) ==
    <<"Executed tool ", name, " with arguments ">> \o DictRepr(ArgsOf(name)) \o <<".">>

\* C21: in scenario A the final report lists exactly two executed steps, the
\* search step followed by the remember step, and no HandleError or Replan
\* transition has occurred.
C21_ScenarioAReportsTwoSteps ==
    ScenarioA =>
        /\ Get(state, "completed_plan_steps", <<>>)
               = <<StepSummary("search_the_web"), StepSummary("add_to_memory")>>
        /\ Contains(state.final_report,
                    <<"\n\n## Executed Steps\n">>
                    \o <<"- ">> \o StepSummary("search_the_web") \o <<"\n">>
                    \o <<"- ">> \o StepSummary("add_to_memory")
                    \o <<"\n\n## Agent's Final Answer\n">>)
        /\ errors = 0
        /\ replans = 0

\* scenario A with the page of the nominal search, where the report does list
\* the two steps
C21_NominalScenarioA ==
    /\ ScenarioA
    /\ EngineLog[2].content = ToolContent(<<<<"retrieved_content", S(<<"X is Y">>)>>>>)
    /\ errors = 0
    /\ Len(Get(state, "completed_plan_steps", <<>>)) = 2

\* the names the session holds as failed
failed_actions(s) == Get(s, "failed_actions", <<>>)

\* C22: once HandleError has run for a failed capability, the capability's
\* name is in the session's failed_actions in every later state of the run,
\* and failed_actions never holds the same name twice.
C22_FailedActionsKeepsFailedName ==
    [][/\ pc = "handle_error" => Last(messages).name \in Range(failed_actions(state'))
       /\ Range(failed_actions(state)) \subseteq Range(failed_actions(state'))
       /\ \A i, j \in 1..Len(failed_actions(state')) :
              failed_actions(state')[i] = failed_actions(state')[j] => i = j]_vars

\* the value of a field of a result, <<>> when the result has no such field
Field(d, key) ==
    IF \E i \in 1..Len(d) : d[i][1] = key
    THEN d[CHOOSE i \in 1..Len(d) : d[i][1] = key][2].v
    ELSE <<>>

\* the category of the taxonomy that the signal of a failed result belongs to
SignalCategory(d) ==
    IF Contains(Field(d, "error"), <<"401">>) \/ Contains(Field(d, "error"), <<"Unauthorized">>)
    THEN "authentication"
    ELSE IF Contains(Field(d, "error"), <<"403">>) THEN "forbidden"
    ELSE IF Contains(Field(d, "error"), <<"429">>) THEN "rate_limit"
    ELSE IF Contains(Field(d, "error"), <<"404">>) THEN "not_found"
    ELSE IF Field(d, "return_code") # <<>> \/ Field(d, "error") # <<>> THEN "execution"
    ELSE "unknown"

\* the labels handle_error writes, by the category they stand for
CategoryLabels ==
    [authentication |-> "Authentication failure (e.g., invalid API key)",
     forbidden |-> "Access forbidden (e.g., blocked site)",
     rate_limit |-> "Rate limit exceeded",
     not_found |-> "Resource not found",
     unknown |-> "Unknown error"]

\* the label in the diagnostic message that closes the log
DiagnosticLabel(msgs) == Last(msgs).content[Len(Last(msgs).content) - 1]

\* C23: HandleError labels a failure with the category of its signal: 401,
\* 403, 429 and 404 get their own labels, a non-zero exit or an exception gets
\* the label of a generic execution error, which is the label of no other
\* category, and anything else gets unknown.
C23_LabelMatchesSignal ==
    [][pc = "handle_error" =>
          LET category == SignalCategory(Last(returned))
          IN  IF category = "execution"
              THEN \A other \in DOMAIN CategoryLabels :
                       DiagnosticLabel(messages') # CategoryLabels[other]
              ELSE DiagnosticLabel(messages') = CategoryLabels[category]]_vars

\* without the failures that are exceptions, the labels do match
C23_HttpSignalLabelled ==
    [][(pc = "handle_error" /\ SignalCategory(Last(returned)) # "execution")
          => DiagnosticLabel(messages') = CategoryLabels[SignalCategory(Last(returned))]]_vars

completed_plan_steps(s) == Get(s, "completed_plan_steps", <<>>)

\* the invocations of the last assistant message of the log that carries any
LastInvocations ==
    LET invoking == {i \in 1..Len(messages) : HasToolCalls(messages[i])}
    IN  IF invoking = {} THEN <<>>
        ELSE messages[CHOOSE i \in invoking : \A j \in invoking : j <= i].tool_calls

\* C24: each MarkComplete transition appends exactly one summary to
\* completed_steps, naming a capability that was just executed and its
\* arguments, and no other transition changes completed_steps.
C24_MarkCompleteAppendsOneSummary ==
    [][IF pc = "mark_step_complete"
       THEN \E call \in Range(LastInvocations) :
                completed_plan_steps(state') =
                    Append(completed_plan_steps(state),
                           <<"Executed tool ", call.name, " with arguments ">>
                           \o DictRepr(call.args) \o <<".">>)
       ELSE completed_plan_steps(state') = completed_plan_steps(state)]_vars

\* the same for the assistant messages that carry one invocation, where it
\* does hold
C24_SingleInvocationSummarised ==
    [][IF pc = "mark_step_complete" /\ Len(LastInvocations) = 1
       THEN completed_plan_steps(state') =
                Append(completed_plan_steps(state),
                       <<"Executed tool ", LastInvocations[1].name, " with arguments ">>
                       \o DictRepr(LastInvocations[1].args) \o <<".">>)
       ELSE pc # "mark_step_complete"
                => completed_plan_steps(state') = completed_plan_steps(state)]_vars

\* C25: a Replan transition leaves the log unchanged if it held at most 10
\* messages, and otherwise leaves one synthetic summary message followed by
\* the 10 most recent messages in their order; the log holds at most 11
\* messages on leaving Replan.
C25_ReplanBoundsTheLog ==
    [][(pc = "replan" /\ pc' # "raised") =>
          /\ IF Len(messages) <= PRUNE_WINDOW
             THEN messages' = messages
             ELSE /\ Len(messages') = PRUNE_WINDOW + 1
                  /\ messages'[1] = HumanMessage(SummaryText)
                  /\ \A i \in 1..PRUNE_WINDOW :
                         messages'[i + 1] = messages[Len(messages) - PRUNE_WINDOW + i]
          /\ Len(messages') <= PRUNE_WINDOW + 1]_vars

\* a Replan has just compacted a log of more than 10 messages
C25_Witness ==
    /\ pc = "planner"
    /\ replans > 0
    /\ Len(messages) = PRUNE_WINDOW + 1
    /\ messages[1] = HumanMessage(SummaryText)
    /\ IsHuman(Last(messages))

\* the invocations waiting at the PermissionGate
Requested == Last(messages).tool_calls

\* C26: when the PermissionGate approves a dangerous invocation, or when no
\* requested capability is in the dangerous set, the session state is left
\* unchanged and the next state is Execute; and the operator is never prompted
\* for a capability outside the dangerous set.
C26_ApprovalLeavesStateUnchanged ==
    [][pc = "request_permission" =>
          LET harmless == \A i \in 1..Len(Requested) : Requested[i].name \notin DANGEROUS_TOOLS
              approved == Requested[1].name \in DANGEROUS_TOOLS /\ gate'.answer = <<"y">>
          IN  /\ (harmless \/ approved) => (state' = state /\ pc' = "tool_executor")
              /\ Requested[1].name \notin DANGEROUS_TOOLS => gate'.answer = <<>>]_vars

\* the PermissionGate has just approved a dangerous invocation
C26_Witness ==
    /\ pc = "tool_executor"
    /\ Requested[1].name \in DANGEROUS_TOOLS
    /\ gate = [id |-> Requested[1].id, answer |-> <<"y">>]

C28_NoPendingInvocationAtDecide ==
    pc = "planner" => (messages = <<>> \/ ~HasToolCalls(Last(messages)))

\* Decide is entered after a Replan that followed the operator's response at
\* the AssistanceGate: the response stands where the request was
C28_Witness ==
    /\ pc = "planner"
    /\ replans > 0
    /\ messages # <<>>
    /\ IsHuman(Last(messages))
    /\ Last(messages).content \in AssistanceAnswers

\* a result that reports success with a non-empty payload
IsSuccessResult(d) ==
    /\ ~IsFailureResult(d)
    /\ \E i \in 1..Len(d) : d[i][1] # "status" /\ d[i][2].v # <<>>

\* C29: a capability result that reports success with a non-empty payload is
\* routed to MarkComplete whatever text the payload holds, and the category
\* HandleError writes is the one of the result's error field, not of text
\* inside the payload.
C29_PayloadTextDoesNotClassify ==
    [][/\ (pc = "tool_executor" /\ IsSuccessResult(Last(returned')))
              => pc' = "mark_step_complete"
       /\ (pc = "handle_error" /\ Field(Last(returned), "error") = <<>>)
              => DiagnosticLabel(messages') = CategoryLabels.unknown]_vars

\* with pages that hold none of the markers every success is routed to
\* MarkComplete
C29_NominalSuccessIsCompleted ==
    [][(pc = "tool_executor" /\ IsSuccessResult(Last(returned'))
            /\ ~Contains(ToolContent(Last(returned')), <<"Search returned an empty URL">>))
          => pc' = "mark_step_complete"]_vars

\* C30: an invocation of request_human_assistance never reaches Execute and
\* never produces a CapabilityResult; the AssistanceGate puts the operator's
\* response in the place of the assistant message, so the log grows by no
\* message for it.
C30_AssistanceRequestIsNeverExecuted ==
    /\ [][pc = "handle_human_assistance" =>
            /\ Len(messages') = Len(messages)
            /\ ButLast(messages') = ButLast(messages)
            /\ IsHuman(Last(messages'))]_vars
    /\ [](/\ \A e \in executed : e.name # "request_human_assistance"
          /\ \A i \in 1..Len(messages) :
                 IsTool(messages[i]) => messages[i].name # "request_human_assistance")

\* the same for the requests that an assistant message carries first, which
\* are the ones the AssistanceGate sees
C30_FirstRequestIsNeverExecuted ==
    /\ [][pc = "handle_human_assistance" =>
            /\ Len(messages') = Len(messages)
            /\ ButLast(messages') = ButLast(messages)
            /\ IsHuman(Last(messages'))]_vars
    /\ [](pc = "tool_executor" => Requested[1].name # "request_human_assistance")

\* C31: every run ends after at most 100 graph steps, also when the engine
\* keeps emitting invocations, and a run cut off at that limit has not reached
\* Report and has no final report.
C31_RunEndsWithinHundredSteps ==
    /\ steps <= 100
    /\ pc = "cut_off" => (steps = 100 /\ "final_report" \notin DOMAIN state)

\* a run is cut off after an engine's invocations filled its 100 steps
C31_Witness ==
    /\ pc = "cut_off"
    /\ steps = 100
    /\ run.single = {"request_human_assistance"}
    /\ replans > 0

\* C32: every run starts its first Decide with an empty message log, whatever
\* session messages it was given; a finished run hands back an empty list, so
\* that the next goal's run is given no message; and no message of the session
\* is in the log once the plan is made.
C32_RunsShareNoMessages ==
    /\ (pc = "planner" /\ steps = 1) => messages = <<>>
    /\ (pc = "create_plan" /\ run.goal > 1) => (run.session_messages = <<>> /\ messages = <<>>)
    /\ pc # "create_plan" =>
           \A i \in 1..Len(messages) : messages[i] # HumanMessage(<<"an earlier goal">>)

\* the second goal of a session is about to be planned, after a first run that
\* was given session messages and left messages in its log
C32_Witness ==
    /\ pc = "create_plan"
    /\ run.goal = 2
    /\ steps = 0

\* a run that was given session messages is at its first Decide
C32_FirstDecide ==
    /\ pc = "planner"
    /\ steps = 1
    /\ run.session_messages # <<>>

====
